---- MODULE Spec2Model ----
(***************************************************************************)
(* A model of uPB (src/main.py): the HTTP fetch helpers, the service       *)
(* adapters, the Wi-Fi association step and the command loop upb_main.     *)
(*                                                                         *)
(* Input lines and search terms are sequences of one-character strings,    *)
(* so that strip, startswith, slicing, split, isdigit and int are computed *)
(* as the code computes them.  Texts that are only built and printed       *)
(* (URLs, titles, bodies) are TLA+ strings built with \o.                 *)
(*                                                                         *)
(* A JSON field read from an upstream response is one of the atoms ABSENT  *)
(* (key missing), NULL (JSON null), NUM (a number: a value that is not a   *)
(* string), or a text.                                                     *)
(***************************************************************************)
EXTENDS Integers, Sequences, FiniteSets, TLC

VARIABLES
    pc,            \* upb_main: "loop" | "exited" | "crashed"
    current_term,  \* upb_main's current_term
    cmd,           \* the stripped command of the last iteration
    branch,        \* the if/elif branch the last iteration took
    reqs,          \* URLs requested during the last iteration, in order
    out,           \* texts printed during the last iteration, in order
    hist,          \* history: terms designated so far, previous iteration
    call,          \* last direct adapter call (adapter specification)
    http,          \* state of one run of _http_get_json / _http_get_text
    wlan           \* state of connect_wifi and of the __main__ block

vars == <<pc, current_term, cmd, branch, reqs, out, hist, call, http, wlan>>

(***************************************************************************)
(* Bounds of the model.                                                    *)
(***************************************************************************)
MaxSpaces == 2      \* longest run of blanks between a keyword and its argument

(***************************************************************************)
(* Characters and strings.                                                 *)
(***************************************************************************)
ABSENT == "<absent>"
NULL == "<null>"
NUM == "<num>"

IsStr(v) == v \notin {ABSENT, NULL, NUM}

\* str(x) as used by f-strings
Show(v) == IF v = NULL THEN "None" ELSE IF v = NUM THEN "7" ELSE v

\* dict.get(key, default): the default replaces a missing key only
Get(v, default) == IF v = ABSENT THEN default ELSE v

\* truthiness that takes every present value, None and "" included, for true
Truthy_AnyPresent(v) == v # ABSENT

\* Python truthiness of a field value
Truthy(v) == v \notin {ABSENT, NULL, ""}

IsSpace(c) == c \in {" ", "\t"}

Digits == <<"0", "1", "2", "3", "4", "5", "6", "7", "8", "9">>

IsDigit(c) == \E i \in 1..10 : Digits[i] = c

RECURSIVE LStrip(_)
LStrip(s) == IF s # <<>> /\ IsSpace(Head(s)) THEN LStrip(Tail(s)) ELSE s

RECURSIVE RStrip(_)
RStrip(s) ==
    IF s # <<>> /\ IsSpace(s[Len(s)]) THEN RStrip(SubSeq(s, 1, Len(s) - 1)) ELSE s

\* a strip that leaves the trailing blanks
Strip_LeftOnly(s) == LStrip(s)

\* str.strip()
Strip(s) == RStrip(LStrip(s))

\* str.startswith(p)
StartsWith(s, p) == Len(s) >= Len(p) /\ SubSeq(s, 1, Len(p)) = p

\* s[n:]
Drop(s, n) == SubSeq(s, n + 1, Len(s))

\* the characters of s up to the first blank
RECURSIVE FirstWord(_)
FirstWord(s) ==
    IF s = <<>> \/ IsSpace(Head(s)) THEN <<>> ELSE <<Head(s)>> \o FirstWord(Tail(s))

\* str.split(): the words of s, separated by runs of blanks
RECURSIVE Split(_)
Split(s) ==
    LET t == LStrip(s)
        w == FirstWord(t)
    IN  IF t = <<>> THEN <<>> ELSE <<w>> \o Split(Drop(t, Len(w)))

\* str.split(maxsplit=1): the first word, then the rest without leading blanks
SplitOnce(s) ==
    LET t == LStrip(s)
        w == FirstWord(t)
        rest == LStrip(Drop(t, Len(w)))
    IN  IF t = <<>> THEN <<>> ELSE IF rest = <<>> THEN <<w>> ELSE <<w, rest>>

\* str.isdigit()
IsDigitStr(s) == s # <<>> /\ \A i \in 1..Len(s) : IsDigit(s[i])

\* int(s) for a string of decimal digits
RECURSIVE StrToInt(_)
StrToInt(s) ==
    IF s = <<>> THEN 0 ELSE 10 * StrToInt(SubSeq(s, 1, Len(s) - 1)) + ((CHOOSE i \in 1..10 : Digits[i] = s[Len(s)]) - 1)

\* str(n) for n >= 0, as a TLA+ string
RECURSIVE IntToStr(_)
IntToStr(n) == IF n < 10 THEN Digits[n + 1] ELSE IntToStr(n \div 10) \o Digits[(n % 10) + 1]

\* the text of a character sequence
RECURSIVE Cat(_)
Cat(s) == IF s = <<>> THEN "" ELSE Head(s) \o Cat(Tail(s))

Lowers == <<"a", "b", "c", "d", "e", "f", "g", "h", "i", "j", "k", "l", "m",
            "n", "o", "p", "q", "r", "s", "t", "u", "v", "w", "x", "y", "z">>
Uppers == <<"A", "B", "C", "D", "E", "F", "G", "H", "I", "J", "K", "L", "M",
            "N", "O", "P", "Q", "R", "S", "T", "U", "V", "W", "X", "Y", "Z">>

IsLower(c) == \E i \in 1..26 : Lowers[i] = c
IsUpper(c) == \E i \in 1..26 : Uppers[i] = c

\* str.upper(), str.lower()
Upper(s) ==
    [i \in 1..Len(s) |->
        IF IsLower(s[i]) THEN Uppers[CHOOSE k \in 1..26 : Lowers[k] = s[i]] ELSE s[i]]
Lower(s) ==
    [i \in 1..Len(s) |->
        IF IsUpper(s[i]) THEN Lowers[CHOOSE k \in 1..26 : Uppers[k] = s[i]] ELSE s[i]]

\* characters quote() and quote_plus() leave alone
IsUnreserved(c) == IsLower(c) \/ IsUpper(c) \/ IsDigit(c) \/ c \in {"_", ".", "-"}

\* "%{:02X}".format(ord(ch)) for the other characters of the model
Percent(c) ==
    CASE c = " " -> "%20"
      [] c = "\t" -> "%09"
      [] c = "," -> "%2C"
      [] c = "&" -> "%26"
      [] OTHER -> "%3F"

\* _urlencode_plus(query)
RECURSIVE _urlencode_plus(_)
_urlencode_plus(query) ==
    IF query = <<>> THEN ""
    ELSE LET ch == Head(query)
         IN  (IF ch = " " THEN "+" ELSE IF IsUnreserved(ch) THEN ch ELSE Percent(ch))
                 \o _urlencode_plus(Tail(query))

\* query.strip().replace(" ", "_") followed by quote(title_path, safe="")
RECURSIVE QuoteTitle(_)
QuoteTitle(s) ==
    IF s = <<>> THEN ""
    ELSE LET ch == IF Head(s) = " " THEN "_" ELSE Head(s)
         IN  (IF IsUnreserved(ch) THEN ch ELSE Percent(ch)) \o QuoteTitle(Tail(s))

(***************************************************************************)
(* Upstream responses.  One record per HTTP GET: kind says how the GET     *)
(* ended for the helper ("transport": _requests.get raised; "status":      *)
(* status code >= 400; "badjson": response.json() raised; "json": a JSON   *)
(* value was returned); shape says what JSON value it was; the other       *)
(* fields are the fields the adapter reads.                                *)
(***************************************************************************)
Fails == {[kind |-> k] : k \in {"transport", "status", "badjson"}}

\* a JSON value that is not an object: data.get raises AttributeError
NotDict == [kind |-> "json", shape |-> "list"]

\* _http_get_json / _http_get_text seen from the caller: raises or returns
Raises(r) == r.kind \in {"transport", "status", "badjson"}

\* str(exc) of what the helper raised for url
ExcText(r, url) ==
    CASE r.kind = "transport" -> "connection failed"
      [] r.kind = "status" -> "HTTP 404 for URL: " \o url
      [] OTHER -> "invalid JSON"

AttributeError == "object has no attribute 'get'"

\* what an adapter returns: a (title, body) pair, or a single string
Pair(title, body, urls) == [shape |-> "pair", title |-> title, body |-> body, reqs |-> urls]
Text(body, urls) == [shape |-> "str", title |-> ABSENT, body |-> body, reqs |-> urls]

\* "sep".join(lines)
RECURSIVE Join(_, _)
Join(lines, sep) ==
    IF lines = <<>> THEN ""
    ELSE IF Len(lines) = 1 THEN lines[1]
    ELSE lines[1] \o sep \o Join(Tail(lines), sep)

(***************************************************************************)
(* Service adapters.                                                       *)
(***************************************************************************)
WikiResponses ==
    Fails \cup {NotDict} \cup
    {[kind |-> "json", shape |-> "dict", title |-> t, extract |-> e] :
        t \in {ABSENT, NULL, "Rust"}, e \in {ABSENT, NUM, "A language."}}

fetch_wiki_summary(query, r) ==
    LET url == "https://en.wikipedia.org/api/rest_v1/page/summary/" \o QuoteTitle(Strip(query))
    IN  IF Raises(r) THEN Pair("Error", "Could not fetch data: " \o ExcText(r, url), <<url>>)
        ELSE IF r.shape # "dict"
        THEN Pair("Error", "Could not fetch data: " \o AttributeError, <<url>>)
        ELSE Pair(Get(r.title, "No Title"), Get(r.extract, "No content."), <<url>>)

\* RelatedTopics: missing, null, [], a list whose first entry is an object
\* (with its Text field) or is not an object, or a number
DdgResponses ==
    Fails \cup {NotDict} \cup
    {[kind |-> "json", shape |-> "dict", Heading |-> h, AbstractText |-> a,
      RelatedTopics |-> rel, Text |-> ABSENT] :
        h \in {ABSENT, NULL, "Rust"},
        a \in {ABSENT, NULL, "", "An abstract."},
        rel \in {ABSENT, NULL, "[]", "[str]", NUM}} \cup
    {[kind |-> "json", shape |-> "dict", Heading |-> h, AbstractText |-> a,
      RelatedTopics |-> "[dict]", Text |-> t] :
        h \in {ABSENT, "Rust"},
        a \in {ABSENT, NULL, "", "An abstract."},
        t \in {ABSENT, NULL, "", NUM, "A topic."}}

fetch_ddg_result(query, r) ==
    LET url == "https://api.duckduckgo.com/" \o "?q=" \o _urlencode_plus(query)
                   \o "&format=json&no_html=1&no_redirect=1"
        err(e) == Pair("Error", "DuckDuckGo fetch failed: " \o e, <<url>>)
    IN  IF Raises(r) THEN err(ExcText(r, url))
        ELSE IF r.shape # "dict" THEN err(AttributeError)
        ELSE LET title == Get(r.Heading, "DuckDuckGo Search")
                 summary == Get(r.AbstractText, "")
             IN  IF Truthy(summary) THEN Pair(title, summary, <<url>>)
                 ELSE IF r.RelatedTopics \in {ABSENT, NULL, "[]"}
                 THEN Pair(title, "No direct answer found.", <<url>>)
                 ELSE IF r.RelatedTopics = NUM THEN err("object is not subscriptable")
                 ELSE IF r.RelatedTopics = "[dict]"
                 THEN Pair(title,
                           IF Truthy(Get(r.Text, "No summary."))
                           THEN Get(r.Text, "No summary.") ELSE "No summary.",
                           <<url>>)
                 ELSE Pair(title, "No summary.", <<url>>)

\* fetch_xkcd's comic_number when the caller gives none
None == -1

XkcdResponses ==
    Fails \cup {NotDict} \cup
    {[kind |-> "json", shape |-> "dict", num |-> n, title |-> t, alt |-> a] :
        n \in {ABSENT, NUM}, t \in {ABSENT, "Compiling"}, a \in {ABSENT, NULL, "Alt text."}}

\* the URL fetch_xkcd requests: "if comic_number" is the truth value of the number
XkcdUrl(comic_number) ==
    IF comic_number # None /\ comic_number # 0
    THEN "https://xkcd.com/" \o IntToStr(comic_number) \o "/info.0.json"
    ELSE "https://xkcd.com/info.0.json"

fetch_xkcd(comic_number, r) ==
    LET url == XkcdUrl(comic_number)
        err(e) == Pair("Error", "XKCD fetch failed: " \o e, <<url>>)
    IN  IF Raises(r) THEN err(ExcText(r, url))
        ELSE IF r.shape # "dict" THEN err(AttributeError)
        ELSE Pair("#" \o Show(Get(r.num, "???")) \o " - " \o Show(Get(r.title, "No title")),
                  Get(r.alt, ""), <<url>>)

QuoteResponses ==
    Fails \cup {NotDict} \cup
    {[kind |-> "json", shape |-> "dict", content |-> c, author |-> a] :
        c \in {ABSENT, NULL, "Stay hungry."}, a \in {ABSENT, NULL, "Anon"}}

fetch_quote(r) ==
    LET url == "https://api.quotable.io/random"
        err(e) == Pair("Error", "Quote fetch failed: " \o e, <<url>>)
    IN  IF Raises(r) THEN err(ExcText(r, url))
        ELSE IF r.shape # "dict" THEN err(AttributeError)
        ELSE Pair("Quote by " \o Show(Get(r.author, "Unknown")),
                  Get(r.content, "No quote."), <<url>>)

JokeResponses ==
    Fails \cup {NotDict} \cup
    {[kind |-> "json", shape |-> "dict", joke |-> j] : j \in {ABSENT, NULL, NUM, "A pun."}}

fetch_joke(r) ==
    LET url == "https://icanhazdadjoke.com/"
        err(e) == Pair("Error", "Joke fetch failed: " \o e, <<url>>)
    IN  IF Raises(r) THEN err(ExcText(r, url))
        ELSE IF r.shape # "dict" THEN err(AttributeError)
        ELSE Pair("Dad Joke", Get(r.joke, "No joke found."), <<url>>)

IpResponses ==
    Fails \cup {NotDict} \cup
    {[kind |-> "json", shape |-> "dict", ip |-> i] : i \in {ABSENT, NULL, NUM, "10.0.0.1"}}

fetch_ip(r) ==
    LET url == "https://api.ipify.org?format=json"
        err(e) == Pair("Error", "IP fetch failed: " \o e, <<url>>)
    IN  IF Raises(r) THEN err(ExcText(r, url))
        ELSE IF r.shape # "dict" THEN err(AttributeError)
        ELSE Pair("IP Address", Show(Get(r.ip, "Unknown")), <<url>>)

CatResponses ==
    Fails \cup {NotDict} \cup
    {[kind |-> "json", shape |-> "dict", fact |-> f] : f \in {ABSENT, NULL, NUM, "Cats purr."}}

fetch_catfact(r) ==
    LET url == "https://catfact.ninja/fact"
        err(e) == Pair("Error", "Cat fact fetch failed: " \o e, <<url>>)
    IN  IF Raises(r) THEN err(ExcText(r, url))
        ELSE IF r.shape # "dict" THEN err(AttributeError)
        ELSE Pair("Cat Fact", Get(r.fact, "No fact."), <<url>>)

\* slip: missing, null, an object (with its advice field) or a number
AdviceResponses ==
    Fails \cup {NotDict} \cup
    {[kind |-> "json", shape |-> "dict", slip |-> s, advice |-> a] :
        s \in {ABSENT, NULL, "{dict}", NUM}, a \in {ABSENT, NULL, "Rest."}}

fetch_advice(r) ==
    LET url == "https://api.adviceslip.com/advice"
        err(e) == Pair("Error", "Advice fetch failed: " \o e, <<url>>)
    IN  IF Raises(r) THEN err(ExcText(r, url))
        ELSE IF r.shape # "dict" THEN err(AttributeError)
        ELSE IF r.slip = NUM THEN err(AttributeError)
        ELSE IF r.slip = "{dict}" THEN Pair("Advice", Get(r.advice, "No advice."), <<url>>)
        ELSE Pair("Advice", "No advice.", <<url>>)

(***************************************************************************)
(* Hacker News: one index request, then one request per listed identifier. *)
(***************************************************************************)
MaxIds == 6         \* longest identifier list the index endpoint returns

HnBase == "https://hacker-news.firebaseio.com/v0"

\* how the item request of one identifier ends
ItemOutcomes == {"fail", "ok", "nourl"}

\* the response to the item request for story_id
ItemResponse(story_id, outcome) ==
    IF outcome = "fail" THEN [kind |-> "transport"]
    ELSE [kind |-> "json", shape |-> "dict", title |-> "Story " \o IntToStr(story_id),
          url |-> IF outcome = "ok" THEN "https://e.org/" \o IntToStr(story_id) ELSE ABSENT]

\* what the index endpoint returns; identifier lists are 1..k ascending or descending
IndexResponses(m) ==
    Fails \cup {[kind |-> "json", shape |-> "dict"]} \cup
    {[kind |-> "json", shape |-> "list", ids |-> ids] : ids \in {[i \in 1..k |-> i] : k \in 0..m} \cup
                {[i \in 1..k |-> k + 1 - i] : k \in 2..m}}

\* the for loop of fetch_hn_top: a failing item is skipped
RECURSIVE HnStories(_, _)
HnStories(top_ids, items) ==
    IF top_ids = <<>> THEN [stories |-> <<>>, reqs |-> <<>>]
    ELSE LET story_id == Head(top_ids)
             item == items[story_id]
             rest == HnStories(Tail(top_ids), items)
             url == HnBase \o "/item/" \o IntToStr(story_id) \o ".json"
             line == "- " \o Show(Get(item.title, "No title")) \o "\n  " \o
                     Show(Get(item.url, "No URL"))
         IN  IF Raises(item) \/ item.shape # "dict"
             THEN [stories |-> rest.stories, reqs |-> <<url>> \o rest.reqs]
             ELSE [stories |-> <<line>> \o rest.stories,
                   reqs |-> <<url>> \o rest.reqs]

\* the identifier list without the [:n] slice
FirstN_NoSlice(ids, n) == ids

\* _http_get_json(...)[:n]
FirstN(ids, n) == SubSeq(ids, 1, IF Len(ids) < n THEN Len(ids) ELSE n)

fetch_hn_top(n, index, items) ==
    LET url == HnBase \o "/topstories.json"
    IN  IF Raises(index)
        THEN Text("Error fetching Hacker News: " \o ExcText(index, url), <<url>>)
        ELSE IF index.shape # "list"
        THEN Text("Error fetching Hacker News: unhashable type: 'slice'", <<url>>)
        ELSE LET got == HnStories(FirstN(index.ids, n), items)
             IN  Text(IF got.stories # <<>> THEN Join(got.stories, "\n\n") ELSE "No stories.",
                      <<url>> \o got.reqs)

(***************************************************************************)
(* Weather: geocoding request, then forecast request.                      *)
(***************************************************************************)
GeoResponses ==
    Fails \cup {NotDict} \cup
    {[kind |-> "json", shape |-> "dict", results |-> rs, latitude |-> ABSENT,
      longitude |-> ABSENT, name |-> ABSENT, country |-> ABSENT] :
        rs \in {ABSENT, NULL, "[]", "[str]"}} \cup
    {[kind |-> "json", shape |-> "dict", results |-> "[dict]", latitude |-> c,
      longitude |-> c, name |-> nm, country |-> co] :
        c \in {ABSENT, "48.85"}, nm \in {ABSENT, "Paris"}, co \in {ABSENT, "France"}}

ForecastResponses ==
    Fails \cup {NotDict} \cup
    {[kind |-> "json", shape |-> "dict", current_weather |-> cw, temperature |-> t,
      windspeed |-> t, weathercode |-> t] :
        cw \in {ABSENT, NULL, "{dict}", NUM}, t \in {ABSENT, "21"}}

fetch_weather(place, geo, forecast) ==
    LET url1 == "https://geocoding-api.open-meteo.com/v1/search?name="
                    \o _urlencode_plus(place) \o "&count=1"
        err(e, urls) == Pair("Error", "Weather fetch failed: " \o e, urls)
        \* f"Weather - {name}, {country}".strip().strip(','), for names and countries
        \* that carry no outer blanks or commas
        WeatherTitle(name, country) ==
            IF country = "" THEN "Weather - " \o name
            ELSE "Weather - " \o name \o ", " \o country
    IN  IF Raises(geo) THEN err(ExcText(geo, url1), <<url1>>)
        ELSE IF geo.shape # "dict" THEN err(AttributeError, <<url1>>)
        ELSE IF geo.results \in {ABSENT, NULL, "[]"}
        THEN Pair("Weather", "No location found for '" \o Cat(place) \o "'.", <<url1>>)
        ELSE IF geo.results # "[dict]" THEN err(AttributeError, <<url1>>)
        ELSE LET lat == Get(geo.latitude, NULL)
                 lon == Get(geo.longitude, NULL)
                 name == Get(geo.name, Cat(place))
                 country == Get(geo.country, "")
                 url2 == "https://api.open-meteo.com/v1/forecast?latitude=" \o Show(lat)
                             \o "&longitude=" \o Show(lon) \o "&current_weather=true"
                 urls == <<url1, url2>>
                 cw(f) == IF forecast.current_weather = "{dict}" THEN Get(f, NULL) ELSE NULL
             IN  IF Raises(forecast) THEN err(ExcText(forecast, url2), urls)
                 ELSE IF forecast.shape # "dict" THEN err(AttributeError, urls)
                 ELSE IF forecast.current_weather = NUM THEN err(AttributeError, urls)
                 ELSE Pair(WeatherTitle(Show(name), Show(country)),
                           "Temp: " \o Show(cw(forecast.temperature)) \o "°C, Wind: "
                               \o Show(cw(forecast.windspeed)) \o " km/h, Code: "
                               \o Show(cw(forecast.weathercode)),
                           urls)

(***************************************************************************)
(* Dictionary definition.                                                  *)
(***************************************************************************)
\* data: a non-empty list (whose first entry has word and meanings), [], or an
\* object; meanings and definitions: missing, null, [] or a non-empty list
DefineResponses ==
    Fails \cup {[kind |-> "json", shape |-> "dict"], [kind |-> "json", shape |-> "[]"],
                [kind |-> "json", shape |-> "[str]"]} \cup
    {[kind |-> "json", shape |-> "[dict]", word |-> w, meanings |-> m, definitions |-> d,
      definition |-> x] :
        w \in {ABSENT, "rust"}, m \in {ABSENT, NULL, "[]", "[dict]"},
        d \in {ABSENT, "[]", "[dict]"}, x \in {ABSENT, NULL, "An oxide."}}

fetch_define(word, r) ==
    LET w == Strip(word)
        url == "https://api.dictionaryapi.dev/api/v2/entries/en/" \o _urlencode_plus(w)
        err(e) == Pair("Error", "Definition fetch failed: " \o e, <<url>>)
        none == Pair("Define - " \o Cat(w), "No definition found.", <<url>>)
    IN  IF Raises(r) THEN err(ExcText(r, url))
        ELSE IF r.shape \in {"dict", "[]"} THEN none
        ELSE IF r.shape = "[str]" THEN err(AttributeError)
        ELSE IF r.meanings = "[dict]" /\ r.definitions = "[dict]"
        THEN Pair("Define - " \o Show(Get(r.word, Cat(w))),
                  Get(r.definition, "No definition."), <<url>>)
        ELSE none

(***************************************************************************)
(* Crypto prices.                                                          *)
(***************************************************************************)
\* symbols.replace(",", " ")
CommasToBlanks(s) == [i \in 1..Len(s) |-> IF s[i] = "," THEN " " ELSE s[i]]

\* _COINGECKO_IDS.get(t) or t
CoinId(t) ==
    CASE t = <<"b", "t", "c">> -> <<"b", "i", "t", "c", "o", "i", "n">>
      [] t = <<"e", "t", "h">> -> <<"e", "t", "h", "e", "r", "e", "u", "m">>
      [] t = <<"s", "o", "l">> -> <<"s", "o", "l", "a", "n", "a">>
      [] t = <<"a", "d", "a">> -> <<"c", "a", "r", "d", "a", "n", "o">>
      [] t = <<"d", "o", "g", "e">> -> <<"d", "o", "g", "e", "c", "o", "i", "n">>
      [] t = <<"x", "r", "p">> -> <<"r", "i", "p", "p", "l", "e">>
      [] t = <<"m", "a", "t", "i", "c">> -> <<"p", "o", "l", "y", "g", "o", "n">>
      [] OTHER -> t

\* ",".join(words), as characters
RECURSIVE JoinComma(_)
JoinComma(words) ==
    IF words = <<>> THEN <<>>
    ELSE IF Len(words) = 1 THEN words[1]
    ELSE words[1] \o <<",">> \o JoinComma(Tail(words))

\* the response maps the identifiers in priced to an object with a usd price
PriceResponses ==
    Fails \cup {NotDict} \cup
    {[kind |-> "json", shape |-> "dict", priced |-> S] :
        S \in SUBSET {"bitcoin", "ethereum"}}

RECURSIVE PriceLines(_, _)
PriceLines(tokens, r) ==
    IF tokens = <<>> THEN <<>>
    ELSE LET t == Head(tokens)
             rest == PriceLines(Tail(tokens), r)
         IN  IF Cat(CoinId(t)) \in r.priced
             THEN <<Cat(Upper(t)) \o ": $" \o "100">> \o rest
             ELSE rest

fetch_prices(symbols, r) ==
    LET split == Split(CommasToBlanks(symbols))
        tokens == IF split = <<>> THEN <<<<"b", "t", "c">>, <<"e", "t", "h">>>>
                  ELSE [i \in 1..Len(split) |-> Lower(split[i])]
        ids == [i \in 1..Len(tokens) |-> CoinId(tokens[i])]
        url == "https://api.coingecko.com/api/v3/simple/price?ids="
                   \o _urlencode_plus(JoinComma(ids)) \o "&vs_currencies=usd"
        err(e) == Pair("Error", "Price fetch failed: " \o e, <<url>>)
        lines == PriceLines(tokens, r)
    IN  IF Raises(r) THEN err(ExcText(r, url))
        ELSE IF r.shape # "dict" THEN err(AttributeError)
        ELSE Pair("Prices (USD)",
                  IF lines # <<>> THEN Join(lines, "\n") ELSE "No prices found.", <<url>>)

(***************************************************************************)
(* Stock quotes: the primary JSON provider, then the CSV provider.         *)
(***************************************************************************)
MaxQuotes == 2      \* longest result list of the primary provider
MaxCsvLines == 2    \* most lines of the CSV provider's text

\* one element of quoteResponse.result: an object, or a value that is no object
StockQuotes ==
    {[shape |-> "str"],
     [shape |-> "dict", symbol |-> "AAPL", regularMarketPrice |-> "189.5",
      regularMarketChange |-> NUM, regularMarketChangePercent |-> NUM, currency |-> "USD"],
     [shape |-> "dict", symbol |-> ABSENT, regularMarketPrice |-> "12",
      regularMarketChange |-> ABSENT, regularMarketChangePercent |-> NULL,
      currency |-> ABSENT],
     [shape |-> "dict", symbol |-> "MSFT", regularMarketPrice |-> NULL,
      regularMarketChange |-> NUM, regularMarketChangePercent |-> NUM, currency |-> "USD"]}

SeqsUpTo(S, n) == UNION {[1..k -> S] : k \in 0..n}

PrimaryResponses(m) ==
    Fails \cup {NotDict} \cup
    {[kind |-> "json", shape |-> "dict", quoteResponse |-> qr, result |-> "[...]",
      results |-> rs] : qr \in {"{dict}"}, rs \in SeqsUpTo(StockQuotes, m)} \cup
    {[kind |-> "json", shape |-> "dict", quoteResponse |-> qr, result |-> res,
      results |-> <<>>] : qr \in {ABSENT, NULL, "{dict}", NUM}, res \in {ABSENT, NULL}}

\* fmt(x): sign and two decimals for a number, else "n/a"
fmt(x) == IF x = NUM THEN "+7.00" ELSE "n/a"

\* the for loop over results: [lines, raised]; raised when an element has no .get
RECURSIVE StockLines(_)
StockLines(results) ==
    IF results = <<>> THEN [lines |-> <<>>, raised |-> FALSE]
    ELSE LET q == Head(results)
             rest == StockLines(Tail(results))
         IN  IF q.shape # "dict" THEN [lines |-> <<>>, raised |-> TRUE]
             ELSE IF Get(q.regularMarketPrice, NULL) = NULL THEN rest
             ELSE [lines |-> <<Show(Get(q.symbol, "?")) \o ": " \o Show(q.regularMarketPrice)
                                  \o " " \o Show(Get(q.currency, "")) \o " ("
                                  \o fmt(q.regularMarketChange) \o ", "
                                  \o fmt(q.regularMarketChangePercent) \o "%)">>
                              \o rest.lines,
                   raised |-> rest.raised]

\* the first try block of fetch_stocks: [raised, lines]
StocksPrimary(r) ==
    IF Raises(r) \/ r.shape # "dict" \/ r.quoteResponse = NUM
    THEN [raised |-> TRUE, lines |-> <<>>]
    ELSE LET results == IF r.quoteResponse = "{dict}" /\ r.result = "[...]"
                        THEN r.results ELSE <<>>
         IN  StockLines(results)

\* a CSV line is the sequence of its comma-separated fields, without outer blanks
CsvLineKinds ==
    {<<"Symbol", "Date", "Time", "Open", "High", "Low", "Close", "Volume", "Name">>,
     <<"AAPL.US", "2025-01-02", "22:00:00", "1", "2", "0.5", "1.5", "100", "APPLE">>,
     <<"MSFT.US", "2025-01-02", "22:00:00", "1", "2", "0.5">>,
     <<"TSLA.US", "N/D", "N/D", "N/D", "N/D", "N/D", "N/D", "N/D", "TESLA">>,
     <<"No data">>}

\* _http_get_text: raises, or returns the text
SecondaryResponses(m) ==
    {[kind |-> "transport"], [kind |-> "status"]} \cup
    {[kind |-> "text", csv |-> ls] : ls \in SeqsUpTo(CsvLineKinds, m)}

\* the for loop over csv.splitlines()
RECURSIVE CsvLines(_)
CsvLines(csv) ==
    IF csv = <<>> THEN <<>>
    ELSE LET parts == Head(csv)
             rest == CsvLines(Tail(csv))
             \* parts[0].lower() of the first fields of the model
             LowerField(f) ==
                 CASE f = "Symbol" -> "symbol"
                   [] f = "No data" -> "no data"
                   [] f = "AAPL.US" -> "aapl.us"
                   [] f = "MSFT.US" -> "msft.us"
                   [] f = "TSLA.US" -> "tsla.us"
                   [] OTHER -> f
         IN  IF parts = <<>> \/ LowerField(parts[1]) \in {"symbol", "no data"} THEN rest
             ELSE IF Len(parts) < 8 THEN rest
             ELSE IF parts[7] \in {"N/D", "-", ""} THEN rest
             ELSE <<parts[1] \o ": " \o parts[7] \o " (O:" \o parts[4] \o " H:" \o parts[5]
                        \o " L:" \o parts[6] \o ")">> \o rest

\* the second try block swallowing its exception as the first one does
StocksSecondary_Swallows(r, urls) ==
    IF Raises(r) THEN Pair("Stocks", "No stock data found.", urls)
    ELSE LET lines_out == CsvLines(r.csv)
         IN  Pair("Stocks",
                  IF lines_out # <<>> THEN Join(lines_out, "\n") ELSE "No stock data found.",
                  urls)

\* the second try block of fetch_stocks
StocksSecondary(r, urls) ==
    IF Raises(r)
    THEN Pair("Error", "Stock fetch failed: " \o ExcText(r, urls[Len(urls)]), urls)
    ELSE LET lines_out == CsvLines(r.csv)
         IN  Pair("Stocks",
                  IF lines_out # <<>> THEN Join(lines_out, "\n") ELSE "No stock data found.",
                  urls)

\* falling back on an exception only, not on an empty result
StocksFallsBack_OnlyOnError(first) == first.raised

\* whether fetch_stocks goes on to the CSV provider after the first try block
StocksFallsBack(first) == first.raised \/ first.lines = <<>>

fetch_stocks(symbols, primary, secondary) ==
    LET split == Split(CommasToBlanks(symbols))
        tokens == IF split = <<>> THEN <<<<"A", "A", "P", "L">>, <<"M", "S", "F", "T">>>>
                  ELSE [i \in 1..Len(split) |-> Upper(split[i])]
        symbols_param == JoinComma(tokens)
        url1 == "https://query1.finance.yahoo.com/v7/finance/quote?symbols="
                    \o _urlencode_plus(symbols_param)
        url2 == "https://stooq.com/q/l/?s=" \o _urlencode_plus(symbols_param)
                    \o "&f=sd2t2ohlcvn&h=e"
        first == StocksPrimary(primary)
    IN  IF StocksFallsBack(first)
        THEN StocksSecondary(secondary, <<url1, url2>>)
        ELSE Pair("Stocks", Join(first.lines, "\n"), <<url1>>)

(***************************************************************************)
(* World time.                                                             *)
(***************************************************************************)

\* s.split(".")[0]
RECURSIVE BeforeDot(_)
BeforeDot(s) == IF s = <<>> \/ Head(s) = "." THEN <<>> ELSE <<Head(s)>> \o BeforeDot(Tail(s))

\* datetime: missing, null, a number, or a text given by its characters
TimeResponses ==
    Fails \cup {NotDict} \cup
    {[kind |-> "json", shape |-> "dict", datetime |-> d, chars |-> <<>>, timezone |-> z] :
        d \in {ABSENT, NULL, NUM}, z \in {ABSENT, NULL}} \cup
    {[kind |-> "json", shape |-> "dict", datetime |-> "str", chars |-> c, timezone |-> z] :
        c \in {<<"1", "T", "2", ".", "5">>, <<"1", "T", "2">>}, z \in {ABSENT, "Europe/Paris"}}

\* zone is <<>> when the caller gives None
fetch_time(zone, r) ==
    LET url == IF zone # <<>> THEN "https://worldtimeapi.org/api/timezone/" \o Cat(zone)
               ELSE "https://worldtimeapi.org/api/ip"
        err(e) == Pair("Error", "Time fetch failed: " \o e, <<url>>)
    IN  IF Raises(r) THEN err(ExcText(r, url))
        ELSE IF r.shape # "dict" THEN err(AttributeError)
        ELSE IF r.datetime \in {NULL, NUM} THEN err("object has no attribute 'replace'")
        ELSE LET dt == IF r.datetime = ABSENT THEN <<>> ELSE r.chars
                 tz == Get(r.timezone, Cat(zone))
                 blanked == [i \in 1..Len(dt) |-> IF dt[i] = "T" THEN " " ELSE dt[i]]
             IN  Pair("Time - " \o Show(tz), Cat(BeforeDot(blanked)), <<url>>)

(***************************************************************************)
(* The command loop upb_main.                                              *)
(***************************************************************************)
MaxLoopLen == 1     \* longest upstream list (identifiers, quotes, CSV lines) in the loop

kw_search == <<"s", "e", "a", "r", "c", "h">>
kw_reload == <<"r", "e", "l", "o", "a", "d">>
kw_quit == <<"q", "u", "i", "t">>
kw_ddg == <<"d", "d", "g">>
kw_xkcd == <<"x", "k", "c", "d">>
kw_hn == <<"h", "n">>
kw_quote == <<"q", "u", "o", "t", "e">>
kw_joke == <<"j", "o", "k", "e">>
kw_weather == <<"w", "e", "a", "t", "h", "e", "r">>
kw_define == <<"d", "e", "f", "i", "n", "e">>
kw_price == <<"p", "r", "i", "c", "e">>
kw_stock == <<"s", "t", "o", "c", "k">>
kw_time == <<"t", "i", "m", "e">>
kw_ip == <<"i", "p">>
kw_cat == <<"c", "a", "t">>
kw_advice == <<"a", "d", "v", "i", "c", "e">>
kw_foobar == <<"f", "o", "o", "b", "a", "r">>

MicroPython == <<"M", "i", "c", "r", "o", "P", "y", "t", "h", "o", "n">>
Rust == <<"R", "u", "s", "t">>

\* n blanks
Spaces(n) == [i \in 1..n |-> " "]

\* the arguments typed after each keyword (none of them has outer blanks)
ArgsOf(w) ==
    CASE w \in {kw_search, kw_ddg} -> {<<>>, Rust, <<"C", " ", "C">>}
      [] w = kw_xkcd -> {<<>>, <<"0">>, <<"5", "0", "0">>, <<"0", "0", "7">>, <<"x">>,
                         <<"5", " ", "6">>}
      [] w = kw_price -> {<<>>, <<"b", "t", "c">>, <<"E", "T", "H", ",", "x">>}
      [] w = kw_stock -> {<<>>, <<"a", "a", "p", "l">>}
      [] w = kw_time -> {<<>>, <<"U", "T", "C">>}
      [] w \in {kw_weather, kw_define} -> {<<>>, Rust}
      [] OTHER -> {<<>>, <<"x">>}

\* the lines input() returns: blanks, a word, a separator, an argument, blanks
InputLines ==
    UNION {{[lead |-> p[1], w |-> w, sp |-> sp, a |-> a, trail |-> p[2]] :
               p \in {<<<<>>, <<>>>>, <<<<" ">>, <<"\t">>>>},
               sp \in {Spaces(n) : n \in 0..MaxSpaces} \cup {<<"\t">>},
               a \in ArgsOf(w)} :
           w \in {kw_search, kw_reload, kw_quit, kw_ddg, kw_xkcd, kw_hn, kw_quote, kw_joke,
                   kw_weather, kw_define, kw_price, kw_stock, kw_time, kw_ip, kw_cat,
                   kw_advice, kw_foobar}} \cup
    {[lead |-> b, w |-> <<>>, sp |-> <<>>, a |-> <<>>, trail |-> <<>>] :
        b \in {<<>>, <<" ">>, <<"\t", " ">>}}

LineText(l) == l.lead \o l.w \o l.sp \o l.a \o l.trail

\* the if/elif chain of upb_main, in its order
Branch(c) ==
    CASE StartsWith(c, kw_search \o <<" ">>) -> "search"
      [] OTHER ->
    CASE c = <<>> -> "blank"
      [] c = kw_reload -> "reload"
      [] c = kw_quit -> "quit"
      [] OTHER ->
    CASE StartsWith(c, kw_ddg \o <<" ">>) -> "ddg"
      [] OTHER ->
    CASE StartsWith(c, kw_xkcd) -> "xkcd"
      [] OTHER ->
    CASE c = kw_hn -> "hn"
      [] c = kw_quote -> "quote"
      [] c = kw_joke -> "joke"
      [] OTHER ->
    CASE StartsWith(c, kw_weather \o <<" ">>) -> "weather"
      [] OTHER ->
    CASE StartsWith(c, kw_define \o <<" ">>) -> "define"
      [] OTHER ->
    CASE StartsWith(c, kw_price) -> "price"
      [] OTHER ->
    CASE StartsWith(c, kw_stock) -> "stock"
      [] OTHER ->
    CASE StartsWith(c, kw_time) -> "time"
      [] OTHER ->
    CASE c = kw_ip -> "ip"
      [] c = kw_cat -> "cat"
      [] c = kw_advice -> "advice"
      [] OTHER -> "unknown"

Usage ==
    "Unknown command. Use: search <term>, ddg <query>, xkcd [num], hn, quote, joke, "
        \o "weather <place>, define <word>, price <symbols>, stock <symbols>, time [zone], "
        \o "ip, cat, advice, reload, or quit."

NoCall == [fn |-> "none"]

\* print("\n=== " + title + " ===") then print(text + "\n"): [out, ok]; a title or
\* a text that is no string raises TypeError at its concatenation
PrintPair(ret) ==
    IF ~IsStr(ret.title) THEN [out |-> <<>>, ok |-> FALSE]
    ELSE IF ~IsStr(ret.body) THEN [out |-> <<"\n=== " \o ret.title \o " ===">>, ok |-> FALSE]
    ELSE [out |-> <<"\n=== " \o ret.title \o " ===", ret.body \o "\n">>, ok |-> TRUE]

\* where the loop is after printing
AfterPrint(printed) == IF printed.ok THEN "input" ELSE "crashed"

LoopInit ==
    /\ pc = "input"
    /\ current_term = MicroPython
    /\ cmd = <<>>
    /\ branch = "none"
    /\ reqs = <<>>
    /\ out = <<>>
    /\ hist = [term |-> MicroPython, lastWiki |-> "", line |-> <<>>]
    /\ call = NoCall

\* cmd = input("uPB> ").strip()
Input ==
    /\ pc = "input"
    /\ \E l \in InputLines :
          /\ cmd' = Strip(LineText(l))
          \* hist.term: the term of the latest line "search <term>" or "ddg <term>"
          /\ hist' = [term |-> IF /\ l.w \in {kw_search, kw_ddg}
                                  /\ l.sp # <<>> /\ Head(l.sp) = " " /\ l.a # <<>>
                               THEN l.a ELSE hist.term,
                      lastWiki |-> IF branch \in {"search", "reload"} THEN reqs[1]
                                   ELSE hist.lastWiki,
                      line |-> LineText(l)]
    /\ pc' = "dispatch"
    /\ branch' = "none"
    /\ reqs' = <<>>
    /\ out' = <<>>
    /\ call' = NoCall
    /\ UNCHANGED <<current_term, http, wlan>>

\* input raises EOFError or KeyboardInterrupt
InputEnds ==
    /\ pc = "input"
    /\ pc' = "exited"
    /\ branch' = "eof"
    /\ out' = <<"\nBye!">>
    /\ reqs' = <<>>
    /\ call' = NoCall
    /\ UNCHANGED <<current_term, cmd, hist, http, wlan>>

At(name) == pc = "dispatch" /\ Branch(cmd) = name

\* a branch that calls no adapter
Plain(name, printed, next) ==
    /\ branch' = name
    /\ out' = printed
    /\ pc' = next
    /\ reqs' = <<>>
    /\ call' = NoCall
    /\ UNCHANGED <<current_term, cmd, hist, http, wlan>>

\* a branch that calls adapter fn, prints its pair after the lines in pre, and
\* goes back to input
Fetched(name, fn, ret, pre, term) ==
    LET printed == PrintPair(ret)
    IN  /\ branch' = name
        /\ call' = [fn |-> fn, ret |-> ret]
        /\ reqs' = ret.reqs
        /\ out' = pre \o printed.out
        /\ pc' = AfterPrint(printed)
        /\ current_term' = term
        /\ UNCHANGED <<cmd, hist, http, wlan>>

\* the default path: fetch the Wikipedia summary for term
Default(name, term) ==
    \E r \in WikiResponses :
        Fetched(name, "fetch_wiki_summary", fetch_wiki_summary(term, r),
                <<"Fetching: " \o Cat(term)>>, term)

CmdSearch == At("search") /\ Default("search", Strip(Drop(cmd, 7)))

CmdBlank == At("blank") /\ Plain("blank", <<>>, "input")

CmdReload == At("reload") /\ Default("reload", current_term)

CmdQuit == At("quit") /\ Plain("quit", <<"Bye!">>, "exited")

\* ddg without the assignment to current_term
CmdDdg_KeepsTerm ==
    /\ At("ddg")
    /\ LET term == Strip(Drop(cmd, 4))
       IN  \E r \in DdgResponses :
               Fetched("ddg", "fetch_ddg_result", fetch_ddg_result(term, r),
                       <<"Searching DuckDuckGo: " \o Cat(term)>>, current_term)

CmdDdg ==
    /\ At("ddg")
    /\ LET term == Strip(Drop(cmd, 4))
       IN  \E r \in DdgResponses :
               Fetched("ddg", "fetch_ddg_result", fetch_ddg_result(term, r),
                       <<"Searching DuckDuckGo: " \o Cat(term)>>, term)

CmdXkcd ==
    /\ At("xkcd")
    /\ \E r \in XkcdResponses :
           LET parts == Split(cmd)
               num == IF Len(parts) = 2 /\ IsDigitStr(parts[2]) THEN StrToInt(parts[2]) ELSE None
           IN  Fetched("xkcd", "fetch_xkcd", fetch_xkcd(num, r), <<>>, current_term)

\* the number of stories upb_main asks for
HnCount == 5

CmdHn ==
    /\ At("hn")
    /\ \E index \in IndexResponses(MaxLoopLen), o \in [1..MaxLoopLen -> ItemOutcomes] :
           LET ret == fetch_hn_top(HnCount, index,
                                   [id \in 1..MaxLoopLen |-> ItemResponse(id, o[id])])
           IN  /\ branch' = "hn"
               /\ call' = [fn |-> "fetch_hn_top", ret |-> ret]
               /\ reqs' = ret.reqs
               /\ out' = <<"\n=== Hacker News Top ===", ret.body \o "\n">>
               /\ pc' = "input"
               /\ UNCHANGED <<current_term, cmd, hist, http, wlan>>

CmdQuote ==
    /\ At("quote")
    /\ \E r \in QuoteResponses :
           Fetched("quote", "fetch_quote", fetch_quote(r), <<>>, current_term)

CmdJoke ==
    /\ At("joke")
    /\ \E r \in JokeResponses :
           Fetched("joke", "fetch_joke", fetch_joke(r), <<>>, current_term)

CmdWeather ==
    /\ At("weather")
    /\ \E geo \in GeoResponses, forecast \in ForecastResponses :
           Fetched("weather", "fetch_weather",
                   fetch_weather(Strip(Drop(cmd, 8)), geo, forecast), <<>>, current_term)

CmdDefine ==
    /\ At("define")
    /\ \E r \in DefineResponses :
           Fetched("define", "fetch_define", fetch_define(Strip(Drop(cmd, 7)), r),
                   <<>>, current_term)

\* parts[1] if len(parts) > 1 else default, for parts = cmd.split(maxsplit=1)
ArgOr(c, default) == IF Len(SplitOnce(c)) > 1 THEN SplitOnce(c)[2] ELSE default

CmdPrice ==
    /\ At("price")
    /\ \E r \in PriceResponses :
           Fetched("price", "fetch_prices",
                   fetch_prices(ArgOr(cmd, <<"b", "t", "c", " ", "e", "t", "h">>), r),
                   <<>>, current_term)

CmdStock ==
    /\ At("stock")
    /\ \E primary \in PrimaryResponses(MaxLoopLen),
          secondary \in SecondaryResponses(MaxLoopLen) :
           Fetched("stock", "fetch_stocks",
                   fetch_stocks(ArgOr(cmd, <<"A", "A", "P", "L", " ", "M", "S", "F", "T">>),
                                primary, secondary),
                   <<>>, current_term)

CmdTime ==
    /\ At("time")
    /\ \E r \in TimeResponses :
           Fetched("time", "fetch_time", fetch_time(ArgOr(cmd, <<>>), r), <<>>, current_term)

CmdIp ==
    /\ At("ip")
    /\ \E r \in IpResponses : Fetched("ip", "fetch_ip", fetch_ip(r), <<>>, current_term)

CmdCat ==
    /\ At("cat")
    /\ \E r \in CatResponses :
           Fetched("cat", "fetch_catfact", fetch_catfact(r), <<>>, current_term)

CmdAdvice ==
    /\ At("advice")
    /\ \E r \in AdviceResponses :
           Fetched("advice", "fetch_advice", fetch_advice(r), <<>>, current_term)

\* the else branch without its continue: it falls through to the default path
CmdUnknown_FallsThrough ==
    /\ At("unknown")
    /\ \E r \in WikiResponses :
           LET ret == fetch_wiki_summary(current_term, r)
               printed == PrintPair(ret)
           IN  /\ branch' = "unknown"
               /\ call' = [fn |-> "fetch_wiki_summary", ret |-> ret]
               /\ reqs' = ret.reqs
               /\ out' = <<Usage, "Fetching: " \o Cat(current_term)>> \o printed.out
               /\ pc' = AfterPrint(printed)
               /\ UNCHANGED <<current_term, cmd, hist, http, wlan>>

CmdUnknown == At("unknown") /\ Plain("unknown", <<Usage>>, "input")

HttpIdle == [pc |-> "idle"]
WlanIdle == [pc |-> "idle"]

Init == LoopInit /\ http = HttpIdle /\ wlan = WlanIdle

Next ==
    \/ Input
    \/ InputEnds
    \/ CmdSearch
    \/ CmdBlank
    \/ CmdReload
    \/ CmdQuit
    \/ CmdDdg
    \/ CmdXkcd
    \/ CmdHn
    \/ CmdQuote
    \/ CmdJoke
    \/ CmdWeather
    \/ CmdDefine
    \/ CmdPrice
    \/ CmdStock
    \/ CmdTime
    \/ CmdIp
    \/ CmdCat
    \/ CmdAdvice
    \/ CmdUnknown

Spec == Init /\ [][Next]_vars

(***************************************************************************)
(* Properties of the command loop.                                         *)
(***************************************************************************)
Stopped == pc \in {"exited", "crashed"}

\* C1: whatever the upstream answers, the loop stops only on the command quit
\* or on end of input: nothing raised while fetching or printing ends it.
C1_LoopStopsOnlyOnQuitOrEof == Stopped => (pc = "exited" /\ branch \in {"quit", "eof"})

ExactCommands ==
    {kw_reload, kw_quit, kw_hn, kw_quote, kw_joke, kw_ip, kw_cat, kw_advice}

CommandPrefixes ==
    {kw_search \o <<" ">>, kw_ddg \o <<" ">>, kw_xkcd, kw_weather \o <<" ">>,
     kw_define \o <<" ">>, kw_price, kw_stock, kw_time}

\* a non-empty command that is no known command and starts with no known prefix
Unrecognized(c) ==
    /\ c # <<>>
    /\ c \notin ExactCommands
    /\ \A p \in CommandPrefixes : ~StartsWith(c, p)

\* C3: a non-empty line that matches no known command or prefix prints the
\* usage string, requests nothing and leaves current_term as it was.
C3_UnknownOnlyPrintsUsage ==
    [][(pc = "dispatch" /\ Unrecognized(cmd))
          => (/\ out' = <<Usage>>
              /\ reqs' = <<>>
              /\ call' = NoCall
              /\ current_term' = current_term
              /\ pc' = "input")]_vars

C3_Witness ==
    /\ cmd = kw_foobar
    /\ branch = "unknown"
    /\ out = <<Usage>>
    /\ reqs = <<>>
    /\ current_term = Rust

WikiBase == "https://en.wikipedia.org/api/rest_v1/page/summary/"

\* C4: outside the middle of an iteration current_term is the argument of the
\* latest search or ddg line (MicroPython before the first), and the default
\* path (search, reload) requests the summary of exactly that term.
C4_DefaultFetchesLatestTerm ==
    /\ pc # "dispatch" => current_term = hist.term
    /\ branch \in {"search", "reload"} => reqs = <<WikiBase \o QuoteTitle(hist.term)>>

\* reload after search Rust: the summary of Rust is requested a second time
C4_Witness ==
    /\ cmd = kw_reload
    /\ branch = "reload"
    /\ current_term = Rust
    /\ hist.lastWiki = WikiBase \o "Rust"
    /\ reqs = <<WikiBase \o "Rust">>

AdapterOf(b) ==
    CASE b = "ddg" -> "fetch_ddg_result"
      [] b = "xkcd" -> "fetch_xkcd"
      [] b = "hn" -> "fetch_hn_top"
      [] b = "quote" -> "fetch_quote"
      [] b = "joke" -> "fetch_joke"
      [] b = "weather" -> "fetch_weather"
      [] b = "define" -> "fetch_define"
      [] b = "price" -> "fetch_prices"
      [] b = "stock" -> "fetch_stocks"
      [] b = "time" -> "fetch_time"
      [] b = "ip" -> "fetch_ip"
      [] b = "cat" -> "fetch_catfact"
      [] b = "advice" -> "fetch_advice"
      [] OTHER -> "none"

AdapterBranches ==
    {"ddg", "xkcd", "hn", "quote", "joke", "weather", "define", "price", "stock", "time",
     "ip", "cat", "advice"}

\* the two lines a result is printed as
Printed(b, ret) ==
    <<"\n=== " \o (IF b = "hn" THEN "Hacker News Top" ELSE ret.title) \o " ===",
      ret.body \o "\n">>

\* C5: an adapter branch prints the result of its own adapter once and goes back
\* to reading commands without the default fetch; the encyclopedia summary is
\* fetched in an iteration exactly when the command was search or reload.
C5_AdapterBranchPrintsOnceAndLoops ==
    /\ branch \in AdapterBranches =>
          /\ call.fn = AdapterOf(branch)
          /\ reqs = call.ret.reqs
          /\ pc = "input"
          /\ SubSeq(out, Len(out) - 1, Len(out)) = Printed(branch, call.ret)
          /\ Len(out) = IF branch = "ddg" THEN 3 ELSE 2
    /\ call.fn = "fetch_wiki_summary" <=> branch \in {"search", "reload"}

XkcdLatest == "https://xkcd.com/info.0.json"

\* C8: xkcd <n> with n a string of decimal digits requests the numbered
\* endpoint of the number n; xkcd alone requests the latest-comic endpoint.
C8_XkcdNumberedEndpoint ==
    branch = "xkcd" =>
        /\ \A d \in ArgsOf(kw_xkcd), n \in 1..MaxSpaces :
              (IsDigitStr(d) /\ cmd = kw_xkcd \o Spaces(n) \o d)
                  => reqs = <<"https://xkcd.com/" \o IntToStr(StrToInt(d)) \o "/info.0.json">>
        /\ cmd = kw_xkcd => reqs = <<XkcdLatest>>

\* C12: current_term is never the empty string.  A command that takes the
\* search or ddg branch carries a non-blank character after the prefix, and a
\* line that is a bare search or ddg once trimmed takes the unknown branch.
C12_CurrentTermNeverEmpty ==
    /\ current_term # <<>>
    /\ branch = "search" => \E i \in 8..Len(cmd) : ~IsSpace(cmd[i])
    /\ branch = "ddg" => \E i \in 5..Len(cmd) : ~IsSpace(cmd[i])
    /\ (cmd \in {kw_search, kw_ddg} /\ branch \notin {"none", "eof"}) => branch = "unknown"

\* after a term was set, a line "search" followed only by blanks was read: it
\* took the unknown branch and the term is still there
C12_Witness ==
    /\ branch = "unknown"
    /\ cmd = kw_search
    /\ Len(hist.line) > Len(kw_search) + 1
    /\ current_term = Rust

(***************************************************************************)
(* The adapters called directly, one call at a time, with every upstream   *)
(* outcome of the model.  call records the adapter, what it returned, how  *)
(* each GET it issued ended (kinds) and the upstream it was run against.   *)
(***************************************************************************)
CallRecord(fn, ret, up, responses) ==
    [fn |-> fn, ret |-> ret, up |-> up,
     kinds |-> [i \in 1..Len(ret.reqs) |-> responses[i].kind]]

\* an adapter is called when no call is under way; the loop's state is not touched
Idle == call = NoCall /\ UNCHANGED <<pc, current_term, cmd, branch, reqs, out, hist, http, wlan>>

Queries == {Rust, <<"C", " ", "C">>}

Call_fetch_wiki_summary ==
    /\ Idle
    /\ \E q \in Queries, r \in WikiResponses :
        call' = CallRecord("fetch_wiki_summary", fetch_wiki_summary(q, r), [arg |-> q], <<r>>)

Call_fetch_ddg_result ==
    /\ Idle
    /\ \E q \in Queries, r \in DdgResponses :
        call' = CallRecord("fetch_ddg_result", fetch_ddg_result(q, r), [arg |-> q, r |-> r], <<r>>)

Call_fetch_xkcd ==
    /\ Idle
    /\ \E n \in {None, 0, 7, 500}, r \in XkcdResponses :
        call' = CallRecord("fetch_xkcd", fetch_xkcd(n, r), [arg |-> n], <<r>>)

Call_fetch_hn_top ==
    /\ Idle
    /\ \E index \in IndexResponses(MaxIds), o \in [1..MaxIds -> ItemOutcomes] :
        LET items == [id \in 1..MaxIds |-> ItemResponse(id, o[id])]
            ret == fetch_hn_top(HnCount, index, items)
        IN  call' = CallRecord("fetch_hn_top", ret, [index |-> index, outcomes |-> o],
                   <<index>> \o [i \in 1..(Len(ret.reqs) - 1) |-> items[index.ids[i]]])

Call_fetch_quote ==
    /\ Idle
    /\ \E r \in QuoteResponses : call' = CallRecord("fetch_quote", fetch_quote(r), [arg |-> <<>>], <<r>>)

Call_fetch_joke ==
    /\ Idle
    /\ \E r \in JokeResponses : call' = CallRecord("fetch_joke", fetch_joke(r), [arg |-> <<>>], <<r>>)

Call_fetch_weather ==
    /\ Idle
    /\ \E geo \in GeoResponses, forecast \in ForecastResponses :
        call' = CallRecord("fetch_weather", fetch_weather(Rust, geo, forecast), [arg |-> Rust],
               <<geo, forecast>>)

Call_fetch_define ==
    /\ Idle
    /\ \E r \in DefineResponses :
        call' = CallRecord("fetch_define", fetch_define(Rust, r), [arg |-> Rust], <<r>>)

Call_fetch_prices ==
    /\ Idle
    /\ \E a \in ArgsOf(kw_price), r \in PriceResponses :
        call' = CallRecord("fetch_prices", fetch_prices(a, r), [arg |-> a], <<r>>)

Call_fetch_stocks ==
    /\ Idle
    /\ \E a \in ArgsOf(kw_stock), primary \in PrimaryResponses(MaxQuotes),
       secondary \in SecondaryResponses(MaxCsvLines) :
        call' = CallRecord("fetch_stocks", fetch_stocks(a, primary, secondary),
               [arg |-> a, primary |-> primary, secondary |-> secondary],
               <<primary, secondary>>)

Call_fetch_time ==
    /\ Idle
    /\ \E z \in ArgsOf(kw_time), r \in TimeResponses :
        call' = CallRecord("fetch_time", fetch_time(z, r), [arg |-> z], <<r>>)

Call_fetch_ip ==
    /\ Idle
    /\ \E r \in IpResponses : call' = CallRecord("fetch_ip", fetch_ip(r), [arg |-> <<>>], <<r>>)

Call_fetch_catfact ==
    /\ Idle
    /\ \E r \in CatResponses : call' = CallRecord("fetch_catfact", fetch_catfact(r), [arg |-> <<>>], <<r>>)

Call_fetch_advice ==
    /\ Idle
    /\ \E r \in AdviceResponses : call' = CallRecord("fetch_advice", fetch_advice(r), [arg |-> <<>>], <<r>>)

\* the caller takes the result; the next call starts afresh
Returned ==
    /\ call # NoCall
    /\ call' = NoCall
    /\ UNCHANGED <<pc, current_term, cmd, branch, reqs, out, hist, http, wlan>>

AdaptersInit ==
    /\ pc = "off"
    /\ current_term = MicroPython
    /\ cmd = <<>>
    /\ branch = "none"
    /\ reqs = <<>>
    /\ out = <<>>
    /\ hist = [term |-> MicroPython, lastWiki |-> "", line |-> <<>>]
    /\ call = NoCall
    /\ http = HttpIdle
    /\ wlan = WlanIdle

AdaptersNext ==
    \/ Call_fetch_wiki_summary
    \/ Call_fetch_ddg_result
    \/ Call_fetch_xkcd
    \/ Call_fetch_hn_top
    \/ Call_fetch_quote
    \/ Call_fetch_joke
    \/ Call_fetch_weather
    \/ Call_fetch_define
    \/ Call_fetch_prices
    \/ Call_fetch_stocks
    \/ Call_fetch_time
    \/ Call_fetch_ip
    \/ Call_fetch_catfact
    \/ Call_fetch_advice
    \/ Returned

SpecAdapters == AdaptersInit /\ [][AdaptersNext]_vars

(***************************************************************************)
(* Properties of the adapters.                                             *)
(***************************************************************************)
\* every GET the call issued failed at the transport level
AllTransportFailed == \A i \in 1..Len(call.kinds) : call.kinds[i] = "transport"

ExpectedStory(id, o) ==
    "- Story " \o IntToStr(id) \o "\n  "
        \o (IF o = "ok" THEN "https://e.org/" \o IntToStr(id) ELSE "No URL")

\* the entries of the identifiers among the first k whose item request succeeded
ExpectedStories(ids, o, k) ==
    LET m == IF Len(ids) < k THEN Len(ids) ELSE k
        good == SelectSeq([i \in 1..m |-> ids[i]], LAMBDA id : o[id] # "fail")
    IN  [i \in 1..Len(good) |-> ExpectedStory(good[i], o[good[i]])]

HnListed == call # NoCall /\ call.fn = "fetch_hn_top" /\ call.up.index.kind = "json"
               /\ call.up.index.shape = "list"

\* the identifiers of the list whose item request fails
HnFailing == {i \in 1..Len(call.up.index.ids) : call.up.outcomes[call.up.index.ids[i]] = "fail"}

\* C6: with N = 5, a list of 5 identifiers whose item fetch succeeds and 1 whose
\* item fetch fails, at any position, yields the 5 entries in list order.
C6_FiveOfSixAtAnyPosition ==
    (HnListed /\ Len(call.up.index.ids) = 6 /\ Cardinality(HnFailing) = 1)
        => call.ret.body = Join(ExpectedStories(call.up.index.ids, call.up.outcomes, 6), "\n\n")

\* C6 as amended: only the first 5 identifiers are requested, and the result
\* joins, in list order, the entries of those of them whose fetch succeeded.
C6_FirstFiveSkippingFailures ==
    HnListed =>
        LET ids == call.up.index.ids
            expected == ExpectedStories(ids, call.up.outcomes, 5)
        IN  /\ Len(call.ret.reqs) = 1 + (IF Len(ids) < 5 THEN Len(ids) ELSE 5)
            /\ \A i \in 2..Len(call.ret.reqs) :
                  call.ret.reqs[i] = HnBase \o "/item/" \o IntToStr(ids[i - 1]) \o ".json"
            /\ call.ret.body = IF expected = <<>> THEN "No stories."
                               ELSE Join(expected, "\n\n")

\* six identifiers in descending order, the third failing: four entries
C6_Witness ==
    /\ HnListed
    /\ call.up.index.ids = <<6, 5, 4, 3, 2, 1>>
    /\ HnFailing = {3}
    /\ Len(call.ret.reqs) = 6
    /\ call.ret.body = Join(<<ExpectedStory(6, call.up.outcomes[6]),
                             ExpectedStory(5, call.up.outcomes[5]),
                             ExpectedStory(3, call.up.outcomes[3]),
                             ExpectedStory(2, call.up.outcomes[2])>>, "\n\n")

\* the primary request failed: the helper raised, or the JSON had not the shape
PrimaryFailed(r) ==
    \/ r.kind \in {"transport", "status", "badjson"}
    \/ r.shape # "dict"
    \/ r.quoteResponse = NUM
    \/ \E i \in 1..Len(r.results) : r.results[i].shape # "dict"

\* the quote lines of a primary response that did not fail
PrimaryQuoteLines(r) ==
    LET priced == SelectSeq(r.results, LAMBDA q : q.regularMarketPrice # NULL)
    IN  [i \in 1..Len(priced) |->
            IF priced[i].symbol = "AAPL" THEN "AAPL: 189.5 USD (+7.00, +7.00%)"
            ELSE "?: 12  (n/a, n/a%)"]

\* the symbols parameter of both providers' URLs
SymbolsParam(arg) == IF arg = <<>> THEN "AAPL%2CMSFT" ELSE "AAPL"

\* C7: the primary provider is requested first and once; the CSV provider is
\* requested, once, exactly when the primary failed or gave no quote line;
\* otherwise the primary's lines are returned under the title Stocks.
C7_SecondaryIffPrimaryFailedOrEmpty ==
    (call # NoCall /\ call.fn = "fetch_stocks") =>
        LET r == call.up.primary
            urls == call.ret.reqs
            url1 == "https://query1.finance.yahoo.com/v7/finance/quote?symbols="
                        \o SymbolsParam(call.up.arg)
            url2 == "https://stooq.com/q/l/?s=" \o SymbolsParam(call.up.arg)
                        \o "&f=sd2t2ohlcvn&h=e"
            fallback == PrimaryFailed(r) \/ PrimaryQuoteLines(r) = <<>>
        IN  /\ urls = IF fallback THEN <<url1, url2>> ELSE <<url1>>
            /\ ~fallback => /\ call.ret.title = "Stocks"
                            /\ call.ret.body = Join(PrimaryQuoteLines(r), "\n")

\* the primary answered with an empty result list and the CSV provider was asked
C7_Witness ==
    /\ call # NoCall
    /\ call.fn = "fetch_stocks"
    /\ call.up.primary.kind = "json"
    /\ call.up.primary.shape = "dict"
    /\ call.up.primary.result = "[...]"
    /\ call.up.primary.results = <<>>
    /\ Len(call.ret.reqs) = 2
    /\ call.ret.body = "AAPL.US: 1.5 (O:1 H:2 L:0.5)"

\* fetch_ddg_result was run against a JSON object whose RelatedTopics, when it
\* is there, is null or a list
DdgAnswered ==
    /\ call.fn = "fetch_ddg_result"
    /\ call.up.r.kind = "json"
    /\ call.up.r.shape = "dict"
    /\ call.up.r.RelatedTopics # NUM

\* the response carries a non-empty AbstractText
HasAbstract == call.up.r.AbstractText \notin {ABSENT, NULL, ""}

\* the first related topic is an object that carries a non-empty Text
HasTopicText ==
    call.up.r.RelatedTopics = "[dict]" /\ call.up.r.Text \notin {ABSENT, NULL, ""}

\* C11 as stated: the body is the AbstractText when it is present and non-empty,
\* otherwise the text of the first related topic when that is present, and
\* "No direct answer found." when neither is there.
C11_AbstractThenTopicThenNoAnswer ==
    DdgAnswered =>
        call.ret.body = IF HasAbstract THEN call.up.r.AbstractText
                        ELSE IF HasTopicText THEN call.up.r.Text
                        ELSE "No direct answer found."

\* C11: the body is the AbstractText when it is present and non-empty; otherwise
\* "No direct answer found." when RelatedTopics is missing, null or empty; otherwise
\* the Text of the first related topic when that topic is an object with a
\* non-empty Text, and "No summary." when it is not.  The title is the Heading,
\* or "DuckDuckGo Search" when the Heading is missing.
C11_NoSummaryWhenTopicLacksText ==
    DdgAnswered =>
        /\ call.ret.body = IF HasAbstract THEN call.up.r.AbstractText
                           ELSE IF call.up.r.RelatedTopics \in {ABSENT, NULL, "[]"}
                           THEN "No direct answer found."
                           ELSE IF HasTopicText THEN call.up.r.Text
                           ELSE "No summary."
        /\ call.ret.title = IF call.up.r.Heading = ABSENT THEN "DuckDuckGo Search"
                            ELSE call.up.r.Heading
        /\ Len(call.ret.reqs) = 1

\* no AbstractText, and a first related topic that is an object without Text
C11_Witness ==
    /\ DdgAnswered
    /\ call.up.r.AbstractText = ""
    /\ call.up.r.RelatedTopics = "[dict]"
    /\ call.up.r.Text = ABSENT
    /\ call.ret.body = "No summary."

(***************************************************************************)
(* _http_get_json and _http_get_text, statement by statement.  http.trace  *)
(* lists what happened; responses counts the response objects obtained,    *)
(* closes the calls of response.close(); pending is what the try block     *)
(* decided, outcome what the helper did once it has left.                  *)
(***************************************************************************)
HttpAt(p) == http.pc = p /\ UNCHANGED <<pc, current_term, cmd, branch, reqs, out, hist, call, wlan>>

\* the helper is entered: response = None
HttpCall ==
    /\ HttpAt("idle")
    /\ \E fn \in {"_http_get_json", "_http_get_text"}, headers \in BOOLEAN :
           http' = [pc |-> "get", fn |-> fn, headers |-> headers, responses |-> 0,
                    closes |-> 0, pending |-> "none", outcome |-> "none", trace |-> <<>>]

\* _requests.get(url, timeout=..., headers=...): a response, TypeError (no
\* such keyword argument), or another exception
HttpGet ==
    /\ HttpAt("get")
    /\ \/ http' = [http EXCEPT !.pc = "status", !.responses = @ + 1,
                               !.trace = Append(@, "get: response")]
       \/ http' = [http EXCEPT !.pc = "retry", !.trace = Append(@, "get: TypeError")]
       \/ http' = [http EXCEPT !.pc = "finally", !.pending = "raise: get",
                               !.trace = Append(@, "get: raised")]

\* except TypeError: _requests.get again without the timeout
HttpRetry ==
    /\ HttpAt("retry")
    /\ \/ http' = [http EXCEPT !.pc = "status", !.responses = @ + 1,
                               !.trace = Append(@, "get: response")]
       \/ http' = [http EXCEPT !.pc = "finally", !.pending = "raise: get",
                               !.trace = Append(@, "get: raised")]

\* status_code: missing (200 is assumed), None or 0, below 400, 400 or more,
\* or a value int() rejects
HttpStatus ==
    /\ HttpAt("status")
    /\ \E status \in {"missing", "falsy", "200", "404", "not a number"} :
           http' = [http EXCEPT
                       !.pc = IF status \in {"404", "not a number"} THEN "finally" ELSE "body",
                       !.pending = IF status = "404" THEN "raise: RuntimeError"
                                   ELSE IF status = "not a number" THEN "raise: ValueError"
                                   ELSE @,
                       !.trace = Append(@, "status: " \o status)]

\* return response.json(), or the text with its fallbacks
HttpBody ==
    /\ HttpAt("body")
    /\ IF http.fn = "_http_get_json"
       THEN \/ http' = [http EXCEPT !.pc = "finally", !.pending = "return: json",
                                    !.trace = Append(@, "json: parsed")]
            \/ http' = [http EXCEPT !.pc = "finally", !.pending = "raise: json",
                                    !.trace = Append(@, "json: raised")]
       ELSE \E got \in {"text", "content", "empty"} :
                http' = [http EXCEPT !.pc = "finally", !.pending = "return: " \o got,
                                     !.trace = Append(@, "text: " \o got)]

\* a finally whose close is not guarded: what close raises replaces the outcome
HttpFinally_CloseUnguarded ==
    /\ HttpAt("finally")
    /\ \E closed \in {"close: done", "close: raised"} :
           http' = [http EXCEPT
                       !.pc = "done",
                       !.closes = IF http.responses > 0 THEN @ + 1 ELSE @,
                       !.trace = IF http.responses > 0 THEN Append(@, closed) ELSE @,
                       !.outcome = IF http.responses > 0 /\ closed = "close: raised"
                                   THEN "raise: close" ELSE http.pending]

\* finally: close the response if there is one, ignoring what close raises;
\* then the helper returns or raises what the try block decided
HttpFinally ==
    /\ HttpAt("finally")
    /\ \E closed \in {"close: done", "close: raised"} :
           http' = [http EXCEPT
                       !.pc = "done",
                       !.closes = IF http.responses > 0 THEN @ + 1 ELSE @,
                       !.trace = IF http.responses > 0 THEN Append(@, closed) ELSE @,
                       !.outcome = http.pending]

\* the caller has the outcome; the next call starts afresh
HttpLeave ==
    /\ HttpAt("done")
    /\ http' = HttpIdle

HttpInit ==
    /\ pc = "off"
    /\ current_term = MicroPython
    /\ cmd = <<>>
    /\ branch = "none"
    /\ reqs = <<>>
    /\ out = <<>>
    /\ hist = [term |-> MicroPython, lastWiki |-> "", line |-> <<>>]
    /\ call = NoCall
    /\ http = HttpIdle
    /\ wlan = WlanIdle

HttpNext ==
    \/ HttpCall
    \/ HttpGet
    \/ HttpRetry
    \/ HttpStatus
    \/ HttpBody
    \/ HttpFinally
    \/ HttpLeave

SpecHttp == HttpInit /\ [][HttpNext]_vars

Happened(e) == \E i \in 1..Len(http.trace) : http.trace[i] = e

\* what the events before the close make the helper do
ExpectedOutcome ==
    IF Happened("get: raised") THEN "raise: get"
    ELSE IF Happened("status: 404") THEN "raise: RuntimeError"
    ELSE IF Happened("status: not a number") THEN "raise: ValueError"
    ELSE IF Happened("json: raised") THEN "raise: json"
    ELSE IF Happened("json: parsed") THEN "return: json"
    ELSE IF Happened("text: text") THEN "return: text"
    ELSE IF Happened("text: content") THEN "return: content"
    ELSE "return: empty"

\* C9: a response obtained from the GET is closed exactly once before the
\* helper returns or raises, on every exit path, and a failing close does not
\* change the outcome; when the GET raises there is nothing to close and the
\* failure reaches the caller.
C9_ResponseClosedOnceOnEveryPath ==
    /\ http.pc # "idle" =>
          /\ http.closes <= http.responses
          /\ http.responses <= 1
          /\ http.pc # "done" => http.outcome = "none"
    /\ http.pc = "done" =>
          /\ http.closes = http.responses
          /\ http.outcome = ExpectedOutcome
          /\ http.responses = 0 <=> Happened("get: raised")
          /\ http.responses = 0 => http.outcome = "raise: get"

\* status 404, the close raising as well: closed once, RuntimeError raised
C9_Witness ==
    /\ http.pc = "done"
    /\ Happened("status: 404")
    /\ Happened("close: raised")
    /\ http.closes = 1
    /\ http.outcome = "raise: RuntimeError"

(***************************************************************************)
(* connect_wifi and the __main__ block.  Time is counted in polls of 0.5 s *)
(* (500 ms).  On MicroPython the clock is time.ticks_ms(), a counter that  *)
(* wraps around at TicksPeriod; elsewhere it is int(time.time() * 1000).   *)
(***************************************************************************)
TicksPeriod == 64       \* polls after which ticks_ms() wraps around
MaxDelay == 2           \* most polls one sleep(0.5) and its loop body take

\* connect_wifi's default timeout_seconds
timeout_seconds == 20

\* polls per second: time.sleep(0.5)
PollsPerSecond == 2

\* (timeout_seconds * 1000) ms, in polls
TimeoutPolls == timeout_seconds * PollsPerSecond

\* the clock d polls after reading c
Advance(c, d, ticks) == IF ticks THEN (c + d) % TicksPeriod ELSE c + d

WlanAt(p) == wlan.pc = p /\ UNCHANGED <<current_term, cmd, branch, reqs, out, hist, call, http>>

\* connect_wifi up to wlan.connect(ssid, password) and the first clock reading
WifiBegin ==
    /\ WlanAt("called")
    /\ pc' = pc
    /\ wlan' = IF ~wlan.has_network
               THEN [wlan EXCEPT !.pc = "returned", !.state = "SKIPPED"]
               ELSE IF ~wlan.ssid_set
               THEN [wlan EXCEPT !.pc = "returned", !.active = TRUE, !.state = "SKIPPED"]
               ELSE [wlan EXCEPT !.pc = "poll", !.active = TRUE, !.connects = @ + 1,
                                 !.start = wlan.clock, !.state = "CONNECTING"]

\* one evaluation of the while condition and, if not connected, the loop body:
\* sleep, read the clock, compare now - start with the timeout
WifiPoll ==
    /\ WlanAt("poll")
    /\ pc' = pc
    /\ \/ wlan' = [wlan EXCEPT !.pc = "after"]
       \/ \E d \in 1..MaxDelay :
              LET now == Advance(wlan.clock, d, wlan.ticks)
              IN  wlan' = [wlan EXCEPT !.clock = now,
                                       !.pc = IF (now - wlan.start) >= TimeoutPolls
                                              THEN "after" ELSE "poll",
                                       !.state = IF (now - wlan.start) >= TimeoutPolls
                                                 THEN "TIMED_OUT" ELSE @]

\* if wlan.isconnected(): print the configuration; then connect_wifi returns
WifiAfter ==
    /\ WlanAt("after")
    /\ pc' = pc
    /\ \E connected \in BOOLEAN :
           wlan' = [wlan EXCEPT !.pc = "returned",
                                !.state = IF connected THEN "CONNECTED" ELSE @]

\* __main__: upb_main() is called after connect_wifi has returned
MainStarts ==
    /\ WlanAt("returned")
    /\ pc' = "input"
    /\ wlan' = [wlan EXCEPT !.pc = "main"]

WifiInit ==
    /\ pc = "off"
    /\ current_term = MicroPython
    /\ cmd = <<>>
    /\ branch = "none"
    /\ reqs = <<>>
    /\ out = <<>>
    /\ hist = [term |-> MicroPython, lastWiki |-> "", line |-> <<>>]
    /\ call = NoCall
    /\ http = HttpIdle
    /\ \E has_network \in BOOLEAN, ssid_set \in BOOLEAN, ticks \in BOOLEAN,
          clock \in 0..(TicksPeriod - 1) :
           wlan = [pc |-> "called", has_network |-> has_network, ssid_set |-> ssid_set,
                   ticks |-> ticks, clock |-> clock, start |-> 0, connects |-> 0,
                   active |-> FALSE, state |-> "INACTIVE"]

WifiNext ==
    \/ WifiBegin
    \/ WifiPoll
    \/ WifiAfter
    \/ MainStarts

\* the process keeps running: a statement that can be executed is executed
SpecWifi == WifiInit /\ [][WifiNext]_vars /\ WF_vars(WifiNext)

\* C10: once connecting, connect_wifi leaves its polling loop when the
\* interface is connected or the timeout has elapsed, returns, and upb_main
\* starts.
C10_ConnectingLeadsToMain == (wlan.pc = "poll") ~> (wlan.pc = "main")

====
